---------------------------- MODULE Spec2Model ----------------------------
(***************************************************************************)
(* Model of pdemtools/load.py: the strip loaders (from_fpath, preview,     *)
(* from_search, from_id) and the mosaic assembler (mosaic,                 *)
(* _get_index_fpath, _aws_link).                                           *)
(*                                                                         *)
(* Strings that the code composes (paths, URLs, file names) are sequences  *)
(* of string tokens; identifiers the code only compares are plain strings. *)
(* Space is one-dimensional: a raster is a function from cells to pixels,  *)
(* bounds are an interval of cells.                                        *)
(***************************************************************************)
EXTENDS Integers, Sequences, FiniteSets

VARIABLES pc, op, args, outcome, result, opened, handles, indexReads, locals

vars == <<pc, op, args, outcome, result, opened, handles, indexReads, locals>>

(***************************************************************************)
(* Bounds of the model.                                                    *)
(***************************************************************************)
\* number of 2 m tile footprints in the packaged mosaic index
MaxTiles == 2
\* number of pixels of a strip raster file
NPix == 2

(***************************************************************************)
(* Module constants of load.py.                                            *)
(***************************************************************************)
VERSIONS_Extra == [arcticdem |-> <<"v3.0", "v4.1", "v4.0">>, rema |-> <<"v2.0">>]

VERSIONS == [arcticdem |-> <<"v3.0", "v4.1">>, rema |-> <<"v2.0">>]

ARCTICDEM_V3_INDEX_FNAME == "ArcticDEM_Mosaic_Index_v3_gpkg.gpkg"
ARCTICDEM_V3_INDEX_2M_LAYER_NAME == "ArcticDEM_Mosaic_Index_v3_2m"
ARCTICDEM_V4_INDEX_FNAME == "ArcticDEM_Mosaic_Index_v4_1_gpkg.gpkg"
ARCTICDEM_V4_INDEX_2M_LAYER_NAME == "ArcticDEM_Mosaic_Index_v4_1_2m"
REMA_V2_INDEX_FNAME == "REMA_Mosaic_Index_v2_gpkg.gpkg"
REMA_V2_INDEX_2M_LAYER_NAME == "REMA_Mosaic_Index_v2_2m"

PREFIX == <<"https://pgc-opendata-dems.s3.us-west-2.amazonaws.com">>

VALID_MOSAIC_RES == {"2m", "10m", "32m"}

\* the nodata sentinel of the `dem > -9999.0` filters
Sentinel == -9999

(***************************************************************************)
(* Python values.                                                          *)
(***************************************************************************)
\* None where a str is expected (version=None)
None == "None"
\* None where a path is expected (bitmask_fpath=None)
NoPath == <<>>

\* exceptions: the class and the message template of the raise statement
ValueError(msg) == [kind |-> "error", cls |-> "ValueError", msg |-> msg]
IOError == [kind |-> "error", cls |-> "RasterioIOError", msg |-> "io"]
TypeError == [kind |-> "error", cls |-> "TypeError", msg |-> "argument after * must be an iterable"]
IndexError == [kind |-> "error", cls |-> "IndexError", msg |-> "list index out of range"]
Returned == [kind |-> "ok", cls |-> "", msg |-> ""]
NoOutcome == [kind |-> "none", cls |-> "", msg |-> ""]

MSG_DATASET == "Dataset must be one of"
MSG_VERSION == "Version of {dataset} must be one of"
MSG_RESOLUTION == "Resolution must be one of"
MSG_INDEX == "Cannot retrive internal index filepath for specified dataset and version."
MSG_NO_TILES == "No {dataset} mosaic tiles found to intersect with bounds {aoi}"
MSG_AWS_RESOLUTION == "Input `resolution` must be one of ['2m', '10m', '32m']"

\* str.lower() on the dataset and geocell strings of the model
lower(s) ==
    CASE s = "ArcticDEM" -> "arcticdem"
      [] s = "REMA" -> "rema"
      [] s = "N70W051" -> "n70w051"
      [] OTHER -> s

\* f"{resolution}m" for an int resolution
FormatRes(n) ==
    CASE n = 2 -> "2m"
      [] n = 5 -> "5m"
      [] n = 10 -> "10m"
      [] n = 32 -> "32m"
      [] OTHER -> "?m"

\* resolution arguments: a str, or an int (type(resolution) == int)
ResStr(s) == [kind |-> "str", s |-> s, n |-> 0]
ResInt(n) == [kind |-> "int", s |-> "", n |-> n]

RECURSIVE JoinFrom(_, _, _)
JoinFrom(path, comps, i) ==
    IF i > Len(comps) THEN path
    ELSE LET b == comps[i]
         IN  IF Len(b) > 0 /\ b[1] = "/" THEN JoinFrom(b, comps, i + 1)
             ELSE IF Len(path) = 0 \/ path[Len(path)] = "/"
                  THEN JoinFrom(path \o b, comps, i + 1)
                  ELSE JoinFrom(path \o <<"/">> \o b, comps, i + 1)

\* os.path.join(a, *p) (posixpath)
PathJoin(comps) == JoinFrom(comps[1], comps, 2)

\* str.replace(old, new) on token strings
Replace(s, old, new) == [i \in 1..Len(s) |-> IF s[i] = old THEN new ELSE s[i]]

Min(S) == CHOOSE x \in S : \A y \in S : x <= y
Max(S) == CHOOSE x \in S : \A y \in S : x >= y

(***************************************************************************)
(* Bounds: None, a tuple (xmin, xmax) or a shapely Polygon.                *)
(***************************************************************************)
NoBounds == [kind |-> "none", pts |-> {}]
BoundsTuple(lo, hi) == [kind |-> "tuple", pts |-> {lo, hi}]
BoundsPolygon(verts) == [kind |-> "polygon", pts |-> verts]

\* Polygon.bounds: the envelope of the polygon
PolygonBounds(b) == BoundsTuple(Min(b.pts), Max(b.pts))

\* if type(bounds) == Polygon: bounds = bounds.bounds
SanitiseBounds(b) == IF b.kind = "polygon" THEN PolygonBounds(b) ELSE b

BoundsCells(b) == Min(b.pts)..Max(b.pts)


(***************************************************************************)
(* Rasters.  A DataArray is its band dimension and its pixels; a pixel is  *)
(* a number or the missing-data marker (NaN).                              *)
(***************************************************************************)
Missing == [miss |-> TRUE, v |-> 0]
Value(x) == [miss |-> FALSE, v |-> x]

NoRaster == [band |-> FALSE, px |-> <<>>]

\* rxr.open_rasterio(fpath): the file's values, with the band dimension
open_rasterio(file) == [band |-> TRUE, px |-> [c \in DOMAIN file |-> Value(file[c])]]

Restrict(r, cells) == [r EXCEPT !.px = [c \in (DOMAIN r.px) \cap cells |-> r.px[c]]]

\* pdemtools._utils.clip(dem, bounds)
clip(r, b) == Restrict(r, BoundsCells(b))

\* DataArray.rio.clip_box(*bounds)
clip_box(r, b) == Restrict(r, BoundsCells(b))

\* DataArray.rio.bounds()
RioBounds(r) == BoundsTuple(Min(DOMAIN r.px), Max(DOMAIN r.px))

\* comparisons with NaN are False
Gt(p, k) == ~p.miss /\ p.v > k
Eq(p, k) == ~p.miss /\ p.v = k

FilterNodataInclusive(r) ==
    [r EXCEPT !.px = [c \in DOMAIN r.px |-> IF ~r.px[c].miss /\ r.px[c].v >= Sentinel THEN r.px[c] ELSE Missing]]

\* dem.where(dem > -9999.0)
FilterNodata(r) ==
    [r EXCEPT !.px = [c \in DOMAIN r.px |-> IF Gt(r.px[c], Sentinel) THEN r.px[c] ELSE Missing]]

MaskWhereNonZero(dem, mask) ==
    [dem EXCEPT !.px = [c \in (DOMAIN dem.px) \cap (DOMAIN mask.px) |->
                          IF ~Eq(mask.px[c], 0) THEN dem.px[c] ELSE Missing]]

\* dem.where(mask == 0): the arrays are aligned on their common coordinates
MaskWhere(dem, mask) ==
    [dem EXCEPT !.px = [c \in (DOMAIN dem.px) \cap (DOMAIN mask.px) |->
                          IF Eq(mask.px[c], 0) THEN dem.px[c] ELSE Missing]]

\* preview.where(preview > 0)
WherePositive(r) ==
    [r EXCEPT !.px = [c \in DOMAIN r.px |-> IF Gt(r.px[c], 0) THEN r.px[c] ELSE Missing]]

\* dem.squeeze(drop=True)
squeeze(r) == [r EXCEPT !.band = FALSE]

\* what a call returns: a raster or a str
RasterResult(r) == [type |-> "raster", raster |-> r, str |-> <<>>]
StrResult(s) == [type |-> "str", raster |-> NoRaster, str |-> s]
NoResult == [type |-> "none", raster |-> NoRaster, str |-> <<>>]

(***************************************************************************)
(* from_fpath.  demFile and maskFile are the contents of the files at      *)
(* dem_fpath and bitmask_fpath; fail names the I/O step that raises        *)
(* (0: none, 1: open DEM, 2: clip DEM, 3: open bitmask, 4: clip bitmask).  *)
(* The result records the outcome, the value returned, the paths opened    *)
(* in order, and the rasters as opened.                                    *)
(***************************************************************************)
StripExit(o, res, paths, dem0, mask0) ==
    [outcome |-> o, result |-> res, opened |-> paths, indexReads |-> <<>>,
     locals |-> [dem0 |-> dem0, mask0 |-> mask0]]

from_fpath(dem_fpath, bounds, bitmask_fpath, demFile, maskFile, fail) ==
    IF fail = 1 THEN StripExit(IOError, NoResult, <<>>, NoRaster, NoRaster)
    ELSE
    LET dem0 == open_rasterio(demFile)
        b1 == SanitiseBounds(bounds)
    IN  IF b1.kind # "none" /\ fail = 2
        THEN StripExit(IOError, NoResult, <<dem_fpath>>, dem0, NoRaster)
        ELSE
        LET dem1 == IF b1.kind # "none" THEN clip(dem0, b1) ELSE dem0
            b2 == IF b1.kind # "none" THEN b1 ELSE RioBounds(dem0)
            dem2 == FilterNodata(dem1)
        IN  IF bitmask_fpath = NoPath
            THEN StripExit(Returned, RasterResult(squeeze(dem2)), <<dem_fpath>>, dem0, NoRaster)
            ELSE IF fail = 3
            THEN StripExit(IOError, NoResult, <<dem_fpath>>, dem0, NoRaster)
            ELSE
            LET mask0 == open_rasterio(maskFile)
            IN  IF b2.kind # "none" /\ fail = 4
                THEN StripExit(IOError, NoResult, <<dem_fpath, bitmask_fpath>>, dem0, mask0)
                ELSE
                LET mask1 == IF b2.kind # "none" THEN clip(mask0, b2) ELSE mask0
                    dem3 == MaskWhere(dem2, mask1)
                IN  StripExit(Returned, RasterResult(squeeze(dem3)),
                              <<dem_fpath, bitmask_fpath>>, dem0, mask0)

\* the I/O steps a from_fpath call with these arguments goes through
StripSteps(bounds, bitmask_fpath) ==
    {1} \cup (IF bounds.kind # "none" THEN {2} ELSE {})
        \cup (IF bitmask_fpath # NoPath THEN {3, 4} ELSE {})

(***************************************************************************)
(* Search rows: a GeoDataFrame (s3url is a column) or one row of it        *)
(* (s3url is a str).                                                       *)
(***************************************************************************)
\* try: row.s3url.values[0]  except: row.s3url
RowS3Url(row) == IF row.kind = "frame" THEN row.s3url[1] ELSE row.s3url

\* s.split(sep)[1], for an s that holds sep
SplitSecond(s, sep) ==
    LET first == Min({i \in 1..Len(s) : s[i] = sep})
        later == {i \in (first + 1)..Len(s) : s[i] = sep}
        stop == IF later = {} THEN Len(s) + 1 ELSE Min(later)
    IN  SubSeq(s, first + 1, stop - 1)

\* "http://" + s3url.split("/external/")[1]
JsonUrl(row) == <<"http://">> \o SplitSecond(RowS3Url(row), "/external/")

preview(row, bounds, demFile, fail) ==
    LET hillshade_10m_url == Replace(JsonUrl(row), ".json", "_dem_10m_shade_masked.tif")
        r == from_fpath(hillshade_10m_url, bounds, NoPath, demFile, <<>>, fail)
    IN  IF r.outcome.kind = "ok"
        THEN [r EXCEPT !.result = RasterResult(WherePositive(r.result.raster))]
        ELSE r

\* the bitmask path of from_search, None unless bitmask == True
SearchBitmaskUrl(row, bitmask) ==
    IF bitmask = TRUE THEN Replace(JsonUrl(row), ".json", "_bitmask.tif") ELSE NoPath

from_search(row, bounds, bitmask, demFile, maskFile, fail) ==
    LET dem_url == Replace(JsonUrl(row), ".json", "_dem.tif")
    IN  from_fpath(dem_url, bounds, SearchBitmaskUrl(row, bitmask), demFile, maskFile, fail)

(***************************************************************************)
(* from_id                                                                 *)
(***************************************************************************)
BROWSER_PREFIX ==
    <<"https://polargeospatialcenter.github.io/stac-browser/#/external/pgc-opendata-dems.s3.us-west-2.amazonaws.com">>

PreviewIgnored(previewFlag) == FALSE

\* if preview == True
PreviewRequested(previewFlag) == previewFlag = TRUE

\* the strip path os.path.join(root, dataset, "strips", version, "2m", geocell, f"{dem_id}{ext}")
StripPath(root, dataset, version, geocell, dem_id, ext) ==
    PathJoin(<<root, <<dataset>>, <<"strips">>, <<version>>, <<"2m">>, <<geocell>>, <<dem_id, ext>> >>)

\* the bitmask path of from_id, None unless bitmask == True
IdBitmaskFpath(bucket, dataset, version, geocell, dem_id, bitmask) ==
    IF bitmask = TRUE
    THEN StripPath(bucket, dataset, version, geocell, dem_id, "_bitmask.tif")
    ELSE NoPath

from_id(dataset0, geocell0, dem_id, bounds, bitmask, bucket, version, previewFlag, demFile, maskFile, fail) ==
    LET dataset == lower(dataset0)
        geocell == lower(geocell0)
    IN  IF PreviewRequested(previewFlag)
        THEN StripExit(Returned,
                       StrResult(StripPath(BROWSER_PREFIX, dataset, version, geocell, dem_id, ".json")),
                       <<>>, NoRaster, NoRaster)
        ELSE from_fpath(StripPath(bucket, dataset, version, geocell, dem_id, "_dem.tif"),
                       bounds,
                       IdBitmaskFpath(bucket, dataset, version, geocell, dem_id, bitmask),
                       demFile, maskFile, fail)

(***************************************************************************)
(* The packaged mosaic index: MaxTiles 2 m tile footprints in a row, tile  *)
(* k over cells k and k+1 (neighbours share an edge cell), two tiles to a  *)
(* supertile.  Cell MaxTiles + 2 lies outside every footprint.             *)
(***************************************************************************)
TileCode(k) ==
    CASE k = 1 -> "10_10_1_1"
      [] k = 2 -> "10_10_1_2"
      [] k = 3 -> "10_11_1_1"
      [] k = 4 -> "10_11_1_2"
      [] OTHER -> "10_12_1_1"

SupertileCode(k) ==
    CASE k \in {1, 2} -> "10_10"
      [] k \in {3, 4} -> "10_11"
      [] OTHER -> "10_12"

TileRow(k) == [tile |-> TileCode(k), supertile |-> SupertileCode(k), cells |-> {k, k + 1}]

IndexFiles == {ARCTICDEM_V3_INDEX_FNAME, ARCTICDEM_V4_INDEX_FNAME, REMA_V2_INDEX_FNAME}

\* the rows of the 2 m layer of a packaged index file
PackagedIndex(fname, layer) ==
    IF fname \in IndexFiles THEN [k \in 1..MaxTiles |-> TileRow(k)] ELSE <<>>

Cells == 1..(MaxTiles + 2)

\* gpd.read_file(fpath, layer=layer, bbox=bounds): the rows whose footprint meets bbox
Intersects(row, bbox) == bbox.kind = "none" \/ row.cells \cap BoundsCells(bbox) # {}

read_file(fname, layer, bbox) ==
    LET rows == PackagedIndex(fname, layer)
        keep(row) == Intersects(row, bbox)
    IN  SelectSeq(rows, keep)

(***************************************************************************)
(* _get_index_fpath and the layer lookup of mosaic                         *)
(***************************************************************************)
Found(x) == [err |-> FALSE, val |-> x, exc |-> NoOutcome]
Raised(e, x) == [err |-> TRUE, val |-> x, exc |-> e]

\* mosaic, "get dataset version": the layer name of the index
IndexLayer(dataset, version) ==
    IF dataset = "arcticdem" /\ version = "v3.0" THEN Found(ARCTICDEM_V3_INDEX_2M_LAYER_NAME)
    ELSE IF dataset = "arcticdem" /\ version = "v4.1" THEN Found(ARCTICDEM_V4_INDEX_2M_LAYER_NAME)
    ELSE IF dataset = "rema" /\ version = "v2.0" THEN Found(REMA_V2_INDEX_2M_LAYER_NAME)
    ELSE Raised(ValueError(MSG_INDEX), "")

_get_index_fpath(dataset, version) ==
    IF dataset = "arcticdem" /\ version = "v3.0" THEN Found(ARCTICDEM_V3_INDEX_FNAME)
    ELSE IF dataset = "arcticdem" /\ version = "v4.1" THEN Found(ARCTICDEM_V4_INDEX_FNAME)
    ELSE IF dataset = "rema" /\ version = "v2.0" THEN Found(REMA_V2_INDEX_FNAME)
    ELSE Raised(ValueError(MSG_INDEX), "")

(***************************************************************************)
(* _aws_link                                                               *)
(***************************************************************************)
AwsSuffixPlain(dataset, version, resolution) ==
    <<"_", resolution, "_", version, "_dem.tif">>

\* the suffix, with ArcticDEM v3.0's alternate naming scheme
AwsSuffix(dataset, version, resolution) ==
    IF dataset = "arcticdem" /\ version = "v3.0"
    THEN <<"_", resolution, "_", version, "_reg", "_dem.tif">>
    ELSE <<"_", resolution, "_", version, "_dem.tif">>

_aws_link(row, dataset, version, resolution, prefix) ==
    LET suffix == AwsSuffix(dataset, version, resolution)
    IN  IF resolution = "2m"
        THEN Found(PathJoin(<<prefix, <<dataset>>, <<"mosaics">>, <<version>>, <<resolution>>,
                              <<row.supertile>>, <<row.tile>> \o suffix>>))
        ELSE IF resolution \in {"10m", "32m"}
        THEN Found(PathJoin(<<prefix, <<dataset>>, <<"mosaics">>, <<version>>, <<resolution>>,
                              <<row.supertile>>, <<row.supertile>> \o suffix>>))
        ELSE Raised(ValueError(MSG_AWS_RESOLUTION), <<>>)

(***************************************************************************)
(* mosaic, up to the list of tile paths (lines 263-317): no raster is      *)
(* touched here.                                                           *)
(***************************************************************************)
LatestVersionFirst(dataset) == VERSIONS[dataset][1]

\* VERSIONS[dataset][-1]
LatestVersion(dataset) == VERSIONS[dataset][Len(VERSIONS[dataset])]

VersionSupported(dataset, version) == \E i \in 1..Len(VERSIONS[dataset]) : VERSIONS[dataset][i] = version

ResolutionUnchecked(resolution) == TRUE

\* resolution in VALID_MOSAIC_RES
ResolutionValid(resolution) == resolution \in VALID_MOSAIC_RES

NoTilesNever(tiles) == Len(tiles) < 0

\* len(tiles) < 1
NoTiles(tiles) == Len(tiles) < 1

PlanExit(o, dataset, version, resolution, layer, fname, reads, tiles, links) ==
    [outcome |-> o, indexReads |-> reads,
     locals |-> [dataset |-> dataset, version |-> version, resolution |-> resolution,
                 layer |-> layer, fname |-> fname, tiles |-> tiles, links |-> links,
                 fpaths |-> <<>>, dems |-> <<>>]]

\* the links of the rows before the first row whose link raises
RECURSIVE LinksOf(_, _, _, _, _)
LinksOf(tiles, i, dataset, version, resolution) ==
    IF i > Len(tiles) THEN Found(<<>>)
    ELSE LET l == _aws_link(tiles[i], dataset, version, resolution, PREFIX)
         IN  IF l.err THEN Raised(l.exc, <<>>)
             ELSE LET rest == LinksOf(tiles, i + 1, dataset, version, resolution)
                  IN  IF rest.err THEN rest ELSE Found(<<l.val>> \o rest.val)

MosaicPlan(dataset0, resolution0, bounds0, version0) ==
    LET dataset == lower(dataset0)
    IN  IF dataset \notin DOMAIN VERSIONS
        THEN PlanExit(ValueError(MSG_DATASET), dataset, version0, "", "", "", <<>>, <<>>, <<>>)
        ELSE
        IF version0 # None /\ ~VersionSupported(dataset, version0)
        THEN PlanExit(ValueError(MSG_VERSION), dataset, version0, "", "", "", <<>>, <<>>, <<>>)
        ELSE
        LET version == IF version0 = None THEN LatestVersion(dataset) ELSE version0
            resolution == IF resolution0.kind = "int" THEN FormatRes(resolution0.n) ELSE resolution0.s
        IN  IF ~ResolutionValid(resolution)
            THEN PlanExit(ValueError(MSG_RESOLUTION), dataset, version, resolution, "", "", <<>>, <<>>, <<>>)
            ELSE
            LET bounds == SanitiseBounds(bounds0)
                layer == IndexLayer(dataset, version)
            IN  IF layer.err
                THEN PlanExit(layer.exc, dataset, version, resolution, "", "", <<>>, <<>>, <<>>)
                ELSE
                LET fname == _get_index_fpath(dataset, version)
                IN  IF fname.err
                    THEN PlanExit(fname.exc, dataset, version, resolution, layer.val, "", <<>>, <<>>, <<>>)
                    ELSE
                    LET tiles == read_file(fname.val, layer.val, bounds)
                        reads == <<[fname |-> fname.val, layer |-> layer.val, bbox |-> bounds]>>
                    IN  IF NoTiles(tiles)
                        THEN PlanExit(ValueError(MSG_NO_TILES), dataset, version, resolution,
                                      layer.val, fname.val, reads, tiles, <<>>)
                        ELSE
                        LET links == LinksOf(tiles, 1, dataset, version, resolution)
                        IN  PlanExit(IF links.err THEN links.exc ELSE NoOutcome,
                                     dataset, version, resolution,
                                     layer.val, fname.val, reads, tiles, links.val)

(***************************************************************************)
(* mosaic, from the deduplication to the return (lines 319-340).           *)
(* fpaths is list(set(fpaths)) in the order the set happened to give;      *)
(* files maps each path to the content of the raster stored there; fail    *)
(* names the I/O step that raises (0: none; 2i-1: the open of the i-th     *)
(* path; 2i: its clip; for a single path 3 and 4 are the open and the clip *)
(* of line 329).                                                           *)
(***************************************************************************)
\* the values of the list, each once, in the order of first occurrence
RECURSIVE Unique(_)
Unique(q) ==
    IF q = <<>> THEN <<>>
    ELSE LET front == Unique(SubSeq(q, 1, Len(q) - 1))
             last == q[Len(q)]
         IN  IF \E i \in 1..Len(front) : front[i] = last THEN front ELSE Append(front, last)

Range(q) == {q[i] : i \in 1..Len(q)}

\* every order list(set(fpaths)) can give
SetOrders(q) ==
    LET S == Range(q)
        n == Cardinality(S)
    IN  {f \in [1..n -> S] : \A i, j \in 1..n : i # j => f[i] # f[j]}

\* rxr.open_rasterio(fpath).rio.clip_box(*bounds)
LoadTile(file, bounds) == clip_box(open_rasterio(file), bounds)

\* merge_arrays(dems): over the union of the extents, the first array with data wins,
\* where nodata is the first array's nodata value
merge_arrays(dems) ==
    LET covered == UNION {DOMAIN dems[i].px : i \in 1..Len(dems)}
        extent == Min(covered)..Max(covered)
        has(c) == {i \in 1..Len(dems) : c \in DOMAIN dems[i].px /\ ~Eq(dems[i].px[c], Sentinel)}
    IN  [band |-> TRUE,
         px |-> [c \in extent |-> IF has(c) = {} THEN Value(Sentinel)
                                  ELSE dems[Min(has(c))].px[c]]]

\* the paths opened when the load is over: line 325 for each path, line 329 when
\* there is one path
OpenedByLoad(fpaths) ==
    IF Len(fpaths) = 1 THEN fpaths \o <<fpaths[1]>> ELSE fpaths

LoadExit(plan, o, res, paths, fpaths, dems) ==
    [outcome |-> o, result |-> res, opened |-> paths, indexReads |-> plan.indexReads,
     locals |-> [plan.locals EXCEPT !.fpaths = fpaths, !.dems = dems]]

MosaicLoad(plan, bounds0, fpaths, files, fail) ==
    LET bounds == SanitiseBounds(bounds0)
        n == Len(fpaths)
        \* clip_box(*None) raises once the first raster is open
        step == IF bounds.kind = "none" /\ fail # 1 THEN 2 ELSE fail
        exc == IF bounds.kind = "none" /\ fail # 1 THEN TypeError ELSE IOError
    IN  IF step \in 1..(2 * n)
        THEN LET done == (step - 1) \div 2
                 dems == [i \in 1..done |-> LoadTile(files[fpaths[i]], bounds)]
             IN  LoadExit(plan, exc, NoResult, SubSeq(fpaths, 1, step \div 2), fpaths, dems)
        ELSE
        LET dems == [i \in 1..n |-> LoadTile(files[fpaths[i]], bounds)]
        IN  IF n = 1 /\ step \in {3, 4}
            THEN LoadExit(plan, exc, NoResult,
                          IF step = 3 THEN fpaths ELSE fpaths \o <<fpaths[1]>>, fpaths, dems)
            ELSE
            IF Len(dems) = 0
            THEN LoadExit(plan, IndexError, NoResult, <<>>, fpaths, dems)
            ELSE
            LET dem == IF Len(dems) > 1 THEN merge_arrays(dems) ELSE dems[1]
            IN  LoadExit(plan, Returned, RasterResult(FilterNodata(dem)),
                         OpenedByLoad(fpaths), fpaths, dems)

\* the I/O steps of the load of n paths
LoadSteps(n) == IF n = 1 THEN 1..4 ELSE 1..(2 * n)

(***************************************************************************)
(* The inputs of the calls and the files they meet.                        *)
(***************************************************************************)
DemVals == {Sentinel, 0, 5}
MaskVals == {0, 1}
TileVals == {Sentinel, 5}

DemFiles == [1..NPix -> DemVals]
MaskFiles == [1..NPix -> MaskVals]
BlankFile == [c \in 1..NPix |-> 0]

StripBounds ==
    {NoBounds} \cup {BoundsTuple(lo, hi) : lo, hi \in 1..NPix} \cup {BoundsPolygon({1, NPix})}

DemPaths == {<<"strip_dem.tif">>}
MaskPaths == {NoPath, <<"strip_bitmask.tif">>}

S3Url(id) ==
    <<"https://polargeospatialcenter.github.io/stac-browser/#", "/external/",
      "pgc-opendata-dems.s3.us-west-2.amazonaws.com/arcticdem/strips/s2s041/2m/n70w051/",
      id, ".json">>

Rows ==
    {[kind |-> "frame", s3url |-> <<S3Url("SETSM_A"), S3Url("SETSM_B")>>],
     [kind |-> "series", s3url |-> S3Url("SETSM_B")]}

IdDatasets == {"ArcticDEM", "rema"}
IdGeocells == {"N70W051"}
IdDems == {"SETSM_A"}
IdBuckets == {PREFIX}
IdVersions == {"s2s041"}

DatasetInputs == {"arcticdem", "ArcticDEM", "REMA", "gimp"}
VersionInputs == {None, "v2.0", "v3.0", "v4.1", "v4.0"}
ResolutionInputs == {ResStr("2m"), ResStr("10m"), ResStr("1m"), ResInt(32), ResInt(5)}
MosaicBounds ==
    {NoBounds} \cup {BoundsTuple(lo, hi) : lo, hi \in Cells}
               \cup {BoundsPolygon({1, MaxTiles + 2}), BoundsPolygon({MaxTiles + 2})}

\* the cells of the raster stored under the link of a row
SupertileCells(code) ==
    UNION {TileRow(k).cells : k \in {j \in 1..MaxTiles : SupertileCode(j) = code}}

LinkCells(row, resolution) ==
    IF resolution = "2m" THEN row.cells ELSE SupertileCells(row.supertile)

\* every content of the rasters stored under the links: a function on the links
RECURSIVE ContentSeqs(_, _)
ContentSeqs(footprints, k) ==
    IF k = 0 THEN {<<>>}
    ELSE {Append(q, c) : q \in ContentSeqs(footprints, k - 1), c \in [footprints[k] -> TileVals]}

FirstAt(q, x) == Min({i \in 1..Len(q) : q[i] = x})

MosaicFiles(plan) ==
    LET links == plan.locals.links
        tiles == plan.locals.tiles
        u == Unique(links)
        footprints == [k \in 1..Len(u) |->
                         LinkCells(tiles[FirstAt(links, u[k])], plan.locals.resolution)]
    IN  {[p \in Range(u) |-> q[FirstAt(u, p)]] : q \in ContentSeqs(footprints, Len(u))}

(***************************************************************************)
(* The calls.  Nothing outlives a call: the caller makes one call, takes   *)
(* what it gives and comes back for the next.  The module has no close()   *)
(* and no context manager: a handle is released only if the interpreter    *)
(* happens to finalise the unreferenced array (gc), so at the exit of a    *)
(* call the handles it opened are either all finalised or all still open.  *)
(***************************************************************************)
NoArgs == [none |-> TRUE]
NoLocals == [none |-> TRUE]

Init ==
    /\ pc = "idle"
    /\ op = "none"
    /\ args = NoArgs
    /\ outcome = NoOutcome
    /\ result = NoResult
    /\ opened = <<>>
    /\ handles = {}
    /\ indexReads = <<>>
    /\ locals = NoLocals

Finish(name, a, r, gc) ==
    /\ pc' = "done"
    /\ op' = name
    /\ args' = a
    /\ outcome' = r.outcome
    /\ result' = r.result
    /\ opened' = r.opened
    /\ handles' = IF gc THEN {} ELSE 1..Len(r.opened)
    /\ indexReads' = r.indexReads
    /\ locals' = r.locals

CallFromFpath ==
    /\ pc = "idle"
    /\ \E dem_fpath \in DemPaths, bounds \in StripBounds, bitmask_fpath \in MaskPaths :
       \E demFile \in DemFiles,
          maskFile \in (IF bitmask_fpath = NoPath THEN {BlankFile} ELSE MaskFiles),
          fail \in {0} \cup StripSteps(bounds, bitmask_fpath), gc \in BOOLEAN :
          Finish("from_fpath",
                 [dem_fpath |-> dem_fpath, bounds |-> bounds, bitmask_fpath |-> bitmask_fpath],
                 from_fpath(dem_fpath, bounds, bitmask_fpath, demFile, maskFile, fail), gc)

CallPreview ==
    /\ pc = "idle"
    /\ \E row \in Rows, bounds \in StripBounds :
       \E demFile \in DemFiles, fail \in {0} \cup StripSteps(bounds, NoPath), gc \in BOOLEAN :
          Finish("preview", [row |-> row, bounds |-> bounds],
                 preview(row, bounds, demFile, fail), gc)

CallFromSearch ==
    /\ pc = "idle"
    /\ \E row \in Rows, bounds \in StripBounds, bitmask \in BOOLEAN :
       \E demFile \in DemFiles,
          maskFile \in (IF bitmask THEN MaskFiles ELSE {BlankFile}),
          fail \in {0} \cup StripSteps(bounds, SearchBitmaskUrl(row, bitmask)), gc \in BOOLEAN :
          Finish("from_search", [row |-> row, bounds |-> bounds, bitmask |-> bitmask],
                 from_search(row, bounds, bitmask, demFile, maskFile, fail), gc)

CallFromId ==
    /\ pc = "idle"
    /\ \E dataset \in IdDatasets, geocell \in IdGeocells, dem_id \in IdDems,
          bounds \in StripBounds, bitmask \in BOOLEAN, bucket \in IdBuckets,
          version \in IdVersions, previewFlag \in BOOLEAN :
       \E demFile \in (IF previewFlag THEN {BlankFile} ELSE DemFiles),
          maskFile \in (IF bitmask /\ ~previewFlag THEN MaskFiles ELSE {BlankFile}),
          fail \in {0} \cup (IF previewFlag THEN {}
                             ELSE StripSteps(bounds, IdBitmaskFpath(bucket, dataset, version, geocell, dem_id, bitmask))),
          gc \in BOOLEAN :
          Finish("from_id",
                 [dataset |-> dataset, geocell |-> geocell, dem_id |-> dem_id,
                  bounds |-> bounds, bitmask |-> bitmask, bucket |-> bucket,
                  version |-> version, preview |-> previewFlag],
                 from_id(dataset, geocell, dem_id, bounds, bitmask, bucket, version, previewFlag,
                        demFile, maskFile, fail), gc)

mosaic ==
    /\ pc = "idle"
    /\ \E dataset \in DatasetInputs, resolution \in ResolutionInputs,
          bounds \in MosaicBounds, version \in VersionInputs :
       \E plan \in {MosaicPlan(dataset, resolution, bounds, version)} :
       LET a == [dataset |-> dataset, resolution |-> resolution,
                 bounds |-> bounds, version |-> version]
       IN  IF plan.outcome.kind = "error"
           THEN Finish("mosaic", a,
                       [outcome |-> plan.outcome, result |-> NoResult, opened |-> <<>>,
                        indexReads |-> plan.indexReads, locals |-> plan.locals],
                       FALSE)
           ELSE \E fpaths \in SetOrders(plan.locals.links), files \in MosaicFiles(plan),
                   fail \in {0} \cup LoadSteps(Cardinality(Range(plan.locals.links))),
                   gc \in BOOLEAN :
                   Finish("mosaic", a, MosaicLoad(plan, bounds, fpaths, files, fail), gc)

\* the caller has taken the result of the call
Return ==
    /\ pc = "done"
    /\ pc' = "idle"
    /\ op' = "none"
    /\ args' = NoArgs
    /\ outcome' = NoOutcome
    /\ result' = NoResult
    /\ opened' = <<>>
    /\ handles' = {}
    /\ indexReads' = <<>>
    /\ locals' = NoLocals

Next ==
    \/ CallFromFpath
    \/ CallPreview
    \/ CallFromSearch
    \/ CallFromId
    \/ mosaic
    \/ Return

Spec == Init /\ [][Next]_vars

(***************************************************************************)
(* Properties.                                                             *)
(***************************************************************************)
Done(name) == pc = "done" /\ op = name

Count(q, x) == Cardinality({i \in 1..Len(q) : q[i] = x})

\* the error taxonomy, by the exception raised
IsValidationError(o) ==
    o.kind = "error" /\ o.cls = "ValueError" /\ o.msg \in {MSG_DATASET, MSG_VERSION, MSG_RESOLUTION}
IsConfigError(o) ==
    o.kind = "error" /\ o.cls = "ValueError" /\ o.msg \in {MSG_INDEX, MSG_AWS_RESOLUTION}
IsNoDataError(o) ==
    o.kind = "error" /\ o.cls = "ValueError" /\ o.msg = MSG_NO_TILES

\* the supported values, as the documentation of mosaic lists them
SupportedDatasets == {"arcticdem", "rema"}
SupportedVersions(ds) == IF ds = "arcticdem" THEN {"v3.0", "v4.1"} ELSE {"v2.0"}
SupportedResolutions == {"2m", "10m", "32m"}

\* the arguments of the mosaic call, as the caller means them
ArgDataset == lower(args.dataset)
ArgResolution ==
    IF args.resolution.kind = "int" THEN FormatRes(args.resolution.n) ELSE args.resolution.s
ArgsSupported ==
    /\ ArgDataset \in SupportedDatasets
    /\ args.version = None \/ args.version \in SupportedVersions(ArgDataset)
    /\ ArgResolution \in SupportedResolutions

\* C1: a mosaic call opens no path twice, and a call that returns has opened each
\* distinct tile/supertile path exactly once - also when two tile footprints map
\* to one supertile and a single path is left after the deduplication.
C1_EachPathOpenedOnce ==
    Done("mosaic") /\ locals.fpaths # <<>> =>
        /\ \A p \in Range(locals.fpaths) : Count(opened, p) <= 1
        /\ outcome.kind = "ok" => \A p \in Range(locals.fpaths) : Count(opened, p) = 1

\* C2: when a from_fpath or mosaic call exits, normally or with an error, none of
\* the raster handles it opened is still open.
C2_HandlesReleased ==
    pc = "done" /\ op \in {"from_fpath", "mosaic"} => handles = {}

\* C3: a mosaic call with an unsupported dataset, version or resolution ends in
\* the validation error, and a validation error comes with no index read and no
\* raster opened.
C3_ValidationBeforeIO ==
    Done("mosaic") =>
        /\ ~ArgsSupported => IsValidationError(outcome)
        /\ IsValidationError(outcome) => ~ArgsSupported /\ indexReads = <<>> /\ opened = <<>>

C3_Witness ==
    /\ Done("mosaic")
    /\ args.dataset = "REMA" /\ args.version = "v2.0" /\ args.resolution = ResStr("1m")
    /\ outcome = ValueError(MSG_RESOLUTION)

\* C4: a mosaic call with supported arguments whose bounds meet no tile footprint
\* fails with the no-data error, which is neither a validation error nor a
\* configuration error, after one index read and with no raster opened.
C4_NoTilesIsNoDataError ==
    Done("mosaic") /\ ArgsSupported /\ args.bounds.kind # "none"
    /\ (\A k \in 1..MaxTiles : BoundsCells(args.bounds) \cap {k, k + 1} = {}) =>
        /\ IsNoDataError(outcome)
        /\ ~IsValidationError(outcome) /\ ~IsConfigError(outcome)
        /\ \A m \in {MSG_DATASET, MSG_VERSION, MSG_RESOLUTION, MSG_INDEX, MSG_AWS_RESOLUTION} :
              outcome # ValueError(m)
        /\ Len(indexReads) = 1
        /\ opened = <<>>

C4_Witness ==
    /\ Done("mosaic") /\ ArgsSupported
    /\ args.bounds = BoundsTuple(MaxTiles + 2, MaxTiles + 2)
    /\ IsNoDataError(outcome) /\ locals.tiles = <<>>

\* the cells where none of the rasters the mosaic merges has data
NoData(c) ==
    \A i \in 1..Len(locals.dems) :
        c \in DOMAIN locals.dems[i].px => locals.dems[i].px[c] = Value(Sentinel)

InR(c) == locals.mask0.px[c] # Value(0)

\* C6 as it was stated: with a bitmask, from_fpath returns the missing-data marker
\* exactly on R and the value of the DEM on every pixel outside R, for every DEM.
C6_MaskExactlyR ==
    Done("from_fpath") /\ outcome.kind = "ok" /\ args.bitmask_fpath # NoPath =>
        \A c \in DOMAIN result.raster.px :
            /\ result.raster.px[c] = Missing <=> InR(c)
            /\ ~InR(c) => result.raster.px[c] = locals.dem0.px[c]

\* C6: with a bitmask, from_fpath returns the pixels of the DEM inside the bounds;
\* a pixel is the missing-data marker exactly when it lies in R or the DEM is not
\* above the sentinel there, and is the value of the DEM everywhere else.
C6_MaskRAndNodata ==
    Done("from_fpath") /\ outcome.kind = "ok" /\ args.bitmask_fpath # NoPath =>
        /\ DOMAIN result.raster.px =
              IF args.bounds.kind = "none" THEN 1..NPix
              ELSE (1..NPix) \cap (Min(args.bounds.pts)..Max(args.bounds.pts))
        /\ \A c \in DOMAIN result.raster.px :
              /\ result.raster.px[c] = Missing <=> InR(c) \/ locals.dem0.px[c].v <= Sentinel
              /\ ~InR(c) /\ locals.dem0.px[c].v > Sentinel =>
                    result.raster.px[c] = locals.dem0.px[c]

C6_Witness ==
    /\ Done("from_fpath") /\ outcome.kind = "ok" /\ args.bitmask_fpath # NoPath
    /\ \E c, d \in DOMAIN result.raster.px :
          /\ InR(c) /\ locals.dem0.px[c] = Value(5) /\ result.raster.px[c] = Missing
          /\ ~InR(d) /\ result.raster.px[d] = Value(5)

\* C7: every link _aws_link builds is
\* {prefix}/{dataset}/mosaics/{version}/{resolution}/{supertile}/{identifier}{suffix},
\* the identifier being the tile code at 2m and the supertile code at 10m and 32m,
\* and the suffix holds the _reg marker exactly for arcticdem v3.0.
C7_AwsLinkFormat ==
    Done("mosaic") /\ locals.links # <<>> =>
        /\ Len(locals.links) = Len(locals.tiles)
        /\ \A i \in 1..Len(locals.links) :
              LET link == locals.links[i]
                  row == locals.tiles[i]
                  identifier == IF locals.resolution = "2m" THEN row.tile ELSE row.supertile
                  suffix == SubSeq(link, 14, Len(link))
              IN  /\ locals.resolution \in {"2m", "10m", "32m"}
                  /\ SubSeq(link, 1, 13) =
                        <<"https://pgc-opendata-dems.s3.us-west-2.amazonaws.com", "/",
                          locals.dataset, "/", "mosaics", "/", locals.version, "/",
                          locals.resolution, "/", row.supertile, "/", identifier>>
                  /\ suffix # <<>> /\ suffix[Len(suffix)] = "_dem.tif"
                  /\ "_reg" \in Range(suffix) <=>
                        locals.dataset = "arcticdem" /\ locals.version = "v3.0"

C7_Witness ==
    /\ Done("mosaic") /\ Len(locals.links) = 2
    /\ locals.dataset = "arcticdem" /\ locals.version = "v3.0" /\ locals.resolution = "32m"
    /\ "_reg" \in Range(locals.links[1])

\* the index file of a dataset and version
IndexOf(ds, v) ==
    IF ds = "rema" THEN REMA_V2_INDEX_FNAME
    ELSE IF v = "v3.0" THEN ARCTICDEM_V3_INDEX_FNAME ELSE ARCTICDEM_V4_INDEX_FNAME

\* C8: with the version omitted mosaic reads the index and builds the links of
\* v4.1 for arcticdem and of v2.0 for rema; a version that is given is the one
\* used when the dataset supports it, and the call fails before any read when it
\* does not.
C8_DefaultVersion ==
    Done("mosaic") /\ ArgDataset \in SupportedDatasets =>
        LET v == IF args.version # None THEN args.version
                 ELSE IF ArgDataset = "arcticdem" THEN "v4.1" ELSE "v2.0"
        IN  /\ args.version # None /\ args.version \notin SupportedVersions(ArgDataset) =>
                  outcome.kind = "error" /\ indexReads = <<>> /\ opened = <<>>
            /\ \A i \in 1..Len(indexReads) : indexReads[i].fname = IndexOf(ArgDataset, v)
            /\ \A i \in 1..Len(locals.links) : locals.links[i][7] = v
            /\ ArgsSupported => Len(indexReads) = 1

C8_Witness ==
    /\ Done("mosaic") /\ args.version = None /\ args.dataset = "ArcticDEM"
    /\ indexReads # <<>> /\ indexReads[1].fname = ARCTICDEM_V4_INDEX_FNAME
    /\ locals.links # <<>> /\ locals.links[1][7] = "v4.1"

\* the paths of a strip, as from_id is documented to build them
IdPath(root, ext) ==
    <<root, "/", lower(args.dataset), "/", "strips", "/", args.version, "/", "2m", "/",
      lower(args.geocell), "/", args.dem_id, ext>>

\* C9: from_id with preview=True returns the browser preview path and opens
\* nothing, whatever bounds and bitmask are; with preview=False the first raster
\* opened is the DEM, the bitmask is opened only when bitmask is true, and a call
\* that returns has opened the bitmask exactly when bitmask is true.
C9_FromIdPreview ==
    Done("from_id") =>
        /\ args.preview =>
              /\ outcome = Returned
              /\ result = StrResult(IdPath(BROWSER_PREFIX[1], ".json"))
              /\ opened = <<>> /\ indexReads = <<>> /\ handles = {}
        /\ ~args.preview =>
              /\ result.type # "str"
              /\ opened # <<>> => opened[1] = IdPath(args.bucket[1], "_dem.tif")
              /\ Len(opened) > 1 =>
                    args.bitmask /\ opened = <<IdPath(args.bucket[1], "_dem.tif"),
                                               IdPath(args.bucket[1], "_bitmask.tif")>>
              /\ outcome.kind = "ok" =>
                    /\ result.type = "raster" /\ opened # <<>>
                    /\ Len(opened) = 2 <=> args.bitmask

C9_Witness ==
    /\ Done("from_id") /\ args.preview /\ args.bitmask /\ args.bounds # NoBounds
    /\ result.type = "str" /\ opened = <<>>

\* C10: a mosaic call that passes the dataset, version and resolution checks never
\* raises a configuration error: the layer and the index file are found and every
\* intersecting tile gets its link.
C10_NoConfigError ==
    Done("mosaic") /\ ~IsValidationError(outcome) =>
        /\ ~IsConfigError(outcome)
        /\ locals.layer # "" /\ locals.fname # ""
        /\ Len(indexReads) = 1
        /\ Len(locals.links) = Len(locals.tiles)

C10_Witness ==
    /\ Done("mosaic") /\ outcome.kind = "ok"
    /\ locals.layer = REMA_V2_INDEX_2M_LAYER_NAME /\ locals.fname = REMA_V2_INDEX_FNAME
    /\ Len(locals.links) = MaxTiles

=============================================================================
